---- MODULE Spec2Model ----
(***************************************************************************)
(* State-machine model of the IRT exam backend (sangbao/backend-irt):      *)
(* the Flask handlers of src/routes/irt_routes.py over the tables of       *)
(* src/models/irt_models.py, with the scoring helpers of                   *)
(* src/services/irt_service.py.                                            *)
(*                                                                         *)
(* Python str values are sequences of one-character strings, float values  *)
(* are exact rationals [num, den] in lowest terms, dict values are         *)
(* functions.                                                              *)
(***************************************************************************)
EXTENDS Integers, Sequences, FiniteSets, TLC

VARIABLES exams, questions, submissions, stats, last, inflight

vars == <<exams, questions, submissions, stats, last, inflight>>

(***************************************************************************)
(* Bounds of the model.                                                    *)
(***************************************************************************)
MaxSubmissions == 5
MaxExams == 2
MaxRequests == 2

(***************************************************************************)
(* Program constants.                                                      *)
(***************************************************************************)
RequiredQuestions == 100
Part1End == 40
Part2End == 60
Part3End == 100
MinSubmissions == 5
theta_min == -3
theta_max == 3
DefaultTotalQuestions == 100

(***************************************************************************)
(* float: exact rationals.                                                 *)
(***************************************************************************)
RECURSIVE GCD(_, _)
GCD(a, b) == IF b = 0 THEN a ELSE GCD(b, a % b)

Abs(x) == IF x < 0 THEN -x ELSE x

Float(n, d) ==
    LET g == GCD(Abs(n), Abs(d))
        s == IF d < 0 THEN -1 ELSE 1
    IN  [num |-> s * ((Abs(n) \div g) * (IF n < 0 THEN -1 ELSE 1)), den |-> Abs(d) \div g]

FloatOfInt(n) == Float(n, 1)
FAdd(a, b) == Float(a.num * b.den + b.num * a.den, a.den * b.den)
FSub(a, b) == Float(a.num * b.den - b.num * a.den, a.den * b.den)
FMul(a, b) == Float(a.num * b.num, a.den * b.den)
FDiv(a, b) == Float(a.num * b.den, a.den * b.num)
FAbs(a) == [num |-> Abs(a.num), den |-> a.den]
FLess(a, b) == a.num * b.den < b.num * a.den
\* int(x) of a float: truncation toward zero
FTrunc(a) == IF a.num >= 0 THEN a.num \div a.den ELSE -((-a.num) \div a.den)

RECURSIVE FSum(_)
FSum(s) == IF s = <<>> THEN FloatOfInt(0) ELSE FAdd(Head(s), FSum(Tail(s)))

\* np.mean of a non-empty list
np_mean(s) == FDiv(FSum(s), FloatOfInt(Len(s)))

(***************************************************************************)
(* str: sequences of characters.                                           *)
(***************************************************************************)
Whitespace == {" ", "\t", "\n", "\r"}
Digits == <<"0", "1", "2", "3", "4", "5", "6", "7", "8", "9">>
LowerCase == <<"a", "b", "c", "d", "e", "f", "g", "h", "i", "j", "k", "l", "m",
               "n", "o", "p", "q", "r", "s", "t", "u", "v", "w", "x", "y", "z">>
UpperCase == <<"A", "B", "C", "D", "E", "F", "G", "H", "I", "J", "K", "L", "M",
               "N", "O", "P", "Q", "R", "S", "T", "U", "V", "W", "X", "Y", "Z">>

IsDigit(c) == \E i \in 1..Len(Digits) : Digits[i] = c
DigitValue(c) == (CHOOSE i \in 1..Len(Digits) : Digits[i] = c) - 1

upper_char(c) ==
    IF \E i \in 1..Len(LowerCase) : LowerCase[i] = c
    THEN UpperCase[CHOOSE i \in 1..Len(LowerCase) : LowerCase[i] = c]
    ELSE c

\* str.upper()
upper(s) == [i \in 1..Len(s) |-> upper_char(s[i])]

RECURSIVE lstrip(_)
lstrip(s) == IF s # <<>> /\ Head(s) \in Whitespace THEN lstrip(Tail(s)) ELSE s

RECURSIVE rstrip(_)
rstrip(s) ==
    IF s # <<>> /\ s[Len(s)] \in Whitespace THEN rstrip(SubSeq(s, 1, Len(s) - 1)) ELSE s

\* str.strip()
strip(s) == rstrip(lstrip(s))

\* index of the first occurrence of character c in s, 0 when absent
find(s, c) ==
    IF \E i \in 1..Len(s) : s[i] = c
    THEN CHOOSE i \in 1..Len(s) : s[i] = c /\ \A j \in 1..(i - 1) : s[j] # c
    ELSE 0

\* str.split(c)
RECURSIVE split(_, _)
split(s, c) ==
    LET i == find(s, c)
    IN  IF i = 0 THEN <<s>>
        ELSE <<SubSeq(s, 1, i - 1)>> \o split(SubSeq(s, i + 1, Len(s)), c)

\* str.split(c, 1)
split_once(s, c) ==
    LET i == find(s, c)
    IN  IF i = 0 THEN <<s>>
        ELSE <<SubSeq(s, 1, i - 1), SubSeq(s, i + 1, Len(s))>>

RECURSIVE DigitsValue(_)
DigitsValue(s) ==
    IF s = <<>> THEN 0
    ELSE 10 * DigitsValue(SubSeq(s, 1, Len(s) - 1)) + DigitValue(s[Len(s)])

RECURSIVE Pow10(_)
Pow10(n) == IF n = 0 THEN 1 ELSE 10 * Pow10(n - 1)

Unsigned(s) == IF s # <<>> /\ Head(s) \in {"+", "-"} THEN Tail(s) ELSE s
SignOf(s) == IF s # <<>> /\ Head(s) = "-" THEN -1 ELSE 1

\* int(s): surrounding whitespace, an optional sign, decimal digits;
\* ok = FALSE stands for ValueError
int(s) ==
    LET t == strip(s)
        u == Unsigned(t)
    IN  IF u # <<>> /\ \A i \in 1..Len(u) : IsDigit(u[i])
        THEN [ok |-> TRUE, value |-> SignOf(t) * DigitsValue(u)]
        ELSE [ok |-> FALSE, value |-> 0]

\* float(s): surrounding whitespace, an optional sign, digits with at most
\* one decimal point; ok = FALSE stands for ValueError
float(s) ==
    LET t == strip(s)
        u == Unsigned(t)
        dot == find(u, ".")
        whole == IF dot = 0 THEN u ELSE SubSeq(u, 1, dot - 1)
        frac == IF dot = 0 THEN <<>> ELSE SubSeq(u, dot + 1, Len(u))
        ds == whole \o frac
    IN  IF ds # <<>> /\ \A i \in 1..Len(ds) : IsDigit(ds[i])
        THEN [ok |-> TRUE, value |-> Float(SignOf(t) * DigitsValue(ds), Pow10(Len(frac)))]
        ELSE [ok |-> FALSE, value |-> FloatOfInt(0)]

\* str(n) for an int, the key json.dumps writes for an int key
str(n) == ToString(n)

(***************************************************************************)
(* dict                                                                    *)
(***************************************************************************)
EmptyDict == [k \in {} |-> <<>>]
DictSet(d, k, v) == [x \in (DOMAIN d) \cup {k} |-> IF x = k THEN v ELSE d[x]]
\* dict.get(k, '')
DictGet(d, k) == IF k \in DOMAIN d THEN d[k] ELSE <<>>

\* json.dumps then json.loads of a dict with int keys: the keys become strings
json_roundtrip(d) == [k \in {str(n) : n \in DOMAIN d} |-> d[CHOOSE n \in DOMAIN d : str(n) = k]]

(***************************************************************************)
(* IRTProcessor                                                            *)
(***************************************************************************)
ParseLine(raw, parsed) ==
    LET line == strip(raw)
        parts == split_once(line, " ")
        question_num == int(parts[1])
    IN  IF line = <<>> THEN parsed
        ELSE IF Len(parts) < 2 THEN parsed
        ELSE IF ~question_num.ok THEN parsed
        ELSE DictSet(parsed, question_num.value, strip(parts[2]))

RECURSIVE ParseLines(_, _)
ParseLines(lines, parsed) ==
    IF lines = <<>> THEN parsed
    ELSE ParseLines(Tail(lines), ParseLine(Head(lines), parsed))

parse_answers(answers_text) ==
    IF answers_text = <<>> THEN EmptyDict
    ELSE ParseLines(split(strip(answers_text), "\n"), EmptyDict)

check_answer(student_answer, correct_answer, question_type) ==
    IF student_answer = <<>> \/ correct_answer = <<>> THEN FALSE
    ELSE LET s == upper(strip(student_answer))
             c == upper(strip(correct_answer))
         IN  CASE question_type \in {"multiple_choice", "multiple_answer", "true_false"} ->
                    s = c
               [] question_type = "fill_number" ->
                    LET student_num == float(s)
                        correct_num == float(c)
                    IN  IF student_num.ok /\ correct_num.ok
                        THEN FLess(FAbs(FSub(student_num.value, correct_num.value)),
                                   Float(1, 100))
                        ELSE FALSE
               [] question_type \in {"fill_text", "drag_drop"} -> s = c
               [] OTHER -> FALSE

\* IRTProcessor(theta_min, theta_max): the processor object
IRTProcessor(lo, hi) == [theta_min |-> lo, theta_max |-> hi]

\* the processor of the routes, built with the default bounds
irt_processor == IRTProcessor(theta_min, theta_max)

scale_to_100(self, theta) ==
    FMul(FDiv(FSub(theta, FloatOfInt(self.theta_min)),
              FloatOfInt(self.theta_max - self.theta_min)),
         FloatOfInt(100))

\* result.x of minimize_scalar(method='bounded'): a point of
\* [theta_min, theta_max], sampled at the two bounds
ThetaOutcomes(self) == {FloatOfInt(self.theta_min), FloatOfInt(self.theta_max)}

\* estimate_theta that returns the optimizer's point of an unbounded search
estimate_theta_unbounded(self, responses, b_parameters) ==
    IF Len(responses) = 0 \/ Len(b_parameters) = 0 THEN {FloatOfInt(0)}
    ELSE {FloatOfInt(self.theta_min - 1), FloatOfInt(0), FloatOfInt(self.theta_max + 1)}

\* the values estimate_theta can return: 0.0 for an empty vector, else
\* result.x, or 0.0 when result.success is false
estimate_theta(self, responses, b_parameters) ==
    IF Len(responses) = 0 \/ Len(b_parameters) = 0 THEN {FloatOfInt(0)}
    ELSE ThetaOutcomes(self) \cup {FloatOfInt(0)}

update_b_parameter(question_responses, student_thetas) ==
    LET n == IF Len(student_thetas) < Len(question_responses)
             THEN Len(student_thetas) ELSE Len(question_responses)
        correct_thetas == SelectSeq([i \in 1..n |-> <<student_thetas[i], question_responses[i]>>],
                                    LAMBDA p : p[2] = 1)
    IN  IF question_responses = <<>> \/ student_thetas = <<>> THEN FloatOfInt(0)
        ELSE IF Len(correct_thetas) = 0 THEN FloatOfInt(0)
        ELSE np_mean([i \in 1..Len(correct_thetas) |-> correct_thetas[i][1]])

\* list[lo:hi]
Slice(s, lo, hi) == SubSeq(s, lo + 1, IF hi < Len(s) THEN hi ELSE Len(s))

Responses(parsed_answers, qs) ==
    [i \in 1..Len(qs) |->
        IF check_answer(DictGet(parsed_answers, qs[i].question_number),
                        qs[i].correct_answer, qs[i].question_type)
        THEN 1 ELSE 0]

\* the response vectors handed to the four estimate_theta calls
EstimatedOver(responses) ==
    <<Slice(responses, 0, Part1End), Slice(responses, Part1End, Part2End),
      Slice(responses, Part2End, Part3End), responses>>

\* process_submission's four calls of estimate_theta, by their response vectors
Scored(answers, qs) == EstimatedOver(Responses(parse_answers(answers), qs))

\* the set of results process_submission can return
process_submission(self, answers, qs) ==
    LET parsed_answers == parse_answers(answers)
        responses == Responses(parsed_answers, qs)
        b_parameters == [i \in 1..Len(qs) |-> qs[i].b_parameter]
        over == EstimatedOver(responses)
    IN  { [responses |-> responses,
           theta_part1 |-> t[1], theta_part2 |-> t[2], theta_part3 |-> t[3],
           theta_total |-> t[4],
           score_part1 |-> scale_to_100(self, t[1]), score_part2 |-> scale_to_100(self, t[2]),
           score_part3 |-> scale_to_100(self, t[3]), total_score |-> scale_to_100(self, t[4]),
           parsed_answers |-> parsed_answers] :
          t \in estimate_theta(self, over[1], Slice(b_parameters, 0, Part1End))
                \X estimate_theta(self, over[2], Slice(b_parameters, Part1End, Part2End))
                \X estimate_theta(self, over[3], Slice(b_parameters, Part2End, Part3End))
                \X estimate_theta(self, over[4], b_parameters) }

(***************************************************************************)
(* Tables (irt_models.py).  A table is the sequence of its rows in         *)
(* insertion order; a row's id is its index.                               *)
(***************************************************************************)
\* the value of Question.id before the row is flushed
NullId == 0

NewExam(id, code, name, total_questions, part_division) ==
    [id |-> id, code |-> code, name |-> name,
     total_questions |-> total_questions, part_division |-> part_division]

NewQuestion(id, exam_id, question_number, question_type, correct_answer, b_parameter) ==
    [id |-> id, exam_id |-> exam_id, question_number |-> question_number,
     question_type |-> question_type, correct_answer |-> correct_answer,
     b_parameter |-> b_parameter]

NewSubmission(id, exam_id, student_name, student_code, answers, result) ==
    [id |-> id, exam_id |-> exam_id, student_name |-> student_name,
     student_code |-> student_code, answers |-> answers,
     theta_part1 |-> result.theta_part1, theta_part2 |-> result.theta_part2,
     theta_part3 |-> result.theta_part3, theta_total |-> result.theta_total,
     score_part1 |-> result.score_part1, score_part2 |-> result.score_part2,
     score_part3 |-> result.score_part3, total_score |-> result.total_score]

\* a stored statistic row: the column defaults are filled in by the INSERT
NewStatistic(id, question_id) ==
    [id |-> id, question_id |-> question_id, total_attempts |-> 0, correct_attempts |-> 0,
     option_a_count |-> 0, option_b_count |-> 0, option_c_count |-> 0, option_d_count |-> 0,
     average_theta |-> FloatOfInt(0)]

DB == [exams |-> exams, questions |-> questions, submissions |-> submissions, stats |-> stats]

\* names bound at module level in irt_routes.py: its imports and its functions
ModuleGlobals ==
    {"Blueprint", "request", "jsonify", "db", "Exam", "Question", "Submission",
     "QuestionStatistic", "IRTProcessor", "np", "irt_bp", "irt_processor",
     "get_exams", "create_exam", "get_exam", "submit_answers", "get_submission_result",
     "get_exam_statistics", "update_b_parameters"}

\* evaluating a global name that is not bound raises NameError
NameError(name) == name \notin ModuleGlobals

\* Exam.query.filter_by(code=code).first(): the row's id, NullId when there is none
ExamByCode(db, code) ==
    IF \E i \in 1..Len(db.exams) : db.exams[i].code = code
    THEN CHOOSE i \in 1..Len(db.exams) :
            db.exams[i].code = code /\ \A j \in 1..(i - 1) : db.exams[j].code # code
    ELSE NullId

\* Question.query.filter_by(exam_id=exam_id).all()
QuestionsOf(db, exam_id) == SelectSeq(db.questions, LAMBDA q : q.exam_id = exam_id)

\* Question.query.filter_by(exam_id=exam_id).order_by(Question.question_number).all()
OrderedQuestionsOf(db, exam_id) ==
    SortSeq(QuestionsOf(db, exam_id), LAMBDA a, b : a.question_number < b.question_number)

\* Submission.query.filter_by(exam_id=exam_id).all()
SubmissionsOf(db, exam_id) == SelectSeq(db.submissions, LAMBDA x : x.exam_id = exam_id)

\* QuestionStatistic.query.filter_by(question_id=question_id).first(): the row's id
StatisticOf(db, question_id) ==
    IF \E i \in 1..Len(db.stats) : db.stats[i].question_id = question_id
    THEN CHOOSE i \in 1..Len(db.stats) :
            /\ db.stats[i].question_id = question_id
            /\ \A j \in 1..(i - 1) : db.stats[j].question_id # question_id
    ELSE NullId

(***************************************************************************)
(* create_exam                                                             *)
(***************************************************************************)
create_exam(data, db) ==
    LET exam_id == Len(db.exams) + 1
        exam == NewExam(exam_id, data.code, data.name, data.totalQuestions, data.partDivision)
        n == Len(data.questions)
        new_questions ==
            [i \in 1..n |->
                NewQuestion(Len(db.questions) + i, exam_id, data.questions[i].id,
                            data.questions[i].type, data.questions[i].correctAnswer,
                            data.questions[i].bParameter)]
        \* question.id is read before the session is flushed
        new_stats == [i \in 1..n |-> NewStatistic(Len(db.stats) + i, NullId)]
    IN  IF data.code = "" \/ data.name = "" THEN [status |-> 400, db |-> db]
        ELSE IF ExamByCode(db, data.code) # NullId THEN [status |-> 400, db |-> db]
        \* question_id is nullable=False: the commit raises IntegrityError
        ELSE IF \E i \in 1..n : new_stats[i].question_id = NullId
             THEN [status |-> 500, db |-> db]
        ELSE [status |-> 200,
              db |-> [db EXCEPT !.exams = Append(db.exams, exam),
                                !.questions = db.questions \o new_questions,
                                !.stats = db.stats \o new_stats]]

(***************************************************************************)
(* update_b_parameters                                                     *)
(***************************************************************************)
\* the new difficulty of one question from the stored submissions
NewDifficulty(question, subs) ==
    LET question_responses ==
            [i \in 1..Len(subs) |->
                IF check_answer(DictGet(subs[i].answers, str(question.question_number)),
                                question.correct_answer, question.question_type)
                THEN 1 ELSE 0]
        student_thetas == [i \in 1..Len(subs) |-> subs[i].theta_total]
    IN  update_b_parameter(question_responses, student_thetas)

\* the database with the exam's difficulties recomputed from subs
WithNewDifficulties(db, exam_id, subs) ==
    [db EXCEPT !.questions =
        [j \in 1..Len(db.questions) |->
            IF db.questions[j].exam_id = exam_id
            THEN [db.questions[j] EXCEPT !.b_parameter = NewDifficulty(db.questions[j], subs)]
            ELSE db.questions[j]]]

\* update_b_parameters with the gate's return replaced by a reset to 0.0
update_b_parameters_resetting(exam_id, db) ==
    LET qs == QuestionsOf(db, exam_id)
        subs == SubmissionsOf(db, exam_id)
    IN  IF Len(subs) < MinSubmissions
        THEN [outcome |-> "skipped", db |-> WithNewDifficulties(db, exam_id, <<>>)]
        ELSE IF Len(qs) > 0 /\ NameError("json") THEN [outcome |-> "failed", db |-> db]
        ELSE [outcome |-> "ok", db |-> WithNewDifficulties(db, exam_id, subs)]

\* update_b_parameters whose rollback also drops the exam's newest submission
update_b_parameters_undoing(exam_id, db) ==
    LET qs == QuestionsOf(db, exam_id)
        subs == SubmissionsOf(db, exam_id)
    IN  IF Len(subs) < MinSubmissions THEN [outcome |-> "skipped", db |-> db]
        ELSE IF Len(qs) > 0 /\ NameError("json")
             THEN [outcome |-> "failed",
                   db |-> [db EXCEPT !.submissions =
                            SelectSeq(db.submissions, LAMBDA x : x.id # subs[Len(subs)].id)]]
        ELSE [outcome |-> "ok", db |-> WithNewDifficulties(db, exam_id, subs)]

update_b_parameters(exam_id, db) ==
    LET qs == QuestionsOf(db, exam_id)
        subs == SubmissionsOf(db, exam_id)
    IN  IF Len(subs) < MinSubmissions THEN [outcome |-> "skipped", db |-> db]
        \* json.loads in the loop body: NameError, caught, rollback
        ELSE IF Len(qs) > 0 /\ NameError("json") THEN [outcome |-> "failed", db |-> db]
        ELSE [outcome |-> "ok", db |-> WithNewDifficulties(db, exam_id, subs)]

(***************************************************************************)
(* submit_answers                                                          *)
(***************************************************************************)
\* lines 118-144: the required fields, the exam, its questions
submit_lookup(data, db) ==
    LET exam_id == ExamByCode(db, data.examCode)
        qs == OrderedQuestionsOf(db, exam_id)
    IN  IF data.studentName = "" \/ data.studentCode = "" \/ data.examCode = ""
           \/ data.answers = <<>>
        THEN [status |-> 400, exam_id |-> NullId, questions |-> <<>>]
        ELSE IF exam_id = NullId THEN [status |-> 404, exam_id |-> NullId, questions |-> <<>>]
        ELSE IF Len(qs) # RequiredQuestions
             THEN [status |-> 400, exam_id |-> exam_id, questions |-> <<>>]
        ELSE [status |-> 0, exam_id |-> exam_id, questions |-> qs]

UpdateStatistic(stat, question, response, parsed_answers) ==
    LET student_answer == upper(DictGet(parsed_answers, question.question_number))
        mc == question.question_type = "multiple_choice"
    IN  [stat EXCEPT
            !.total_attempts = @ + 1,
            !.correct_attempts = IF response = 1 THEN @ + 1 ELSE @,
            !.option_a_count = IF mc /\ student_answer = <<"A">> THEN @ + 1 ELSE @,
            !.option_b_count = IF mc /\ student_answer = <<"B">> THEN @ + 1 ELSE @,
            !.option_c_count = IF mc /\ student_answer = <<"C">> THEN @ + 1 ELSE @,
            !.option_d_count = IF mc /\ student_answer = <<"D">> THEN @ + 1 ELSE @]

UpdatedStatistics(db, qs, result) ==
    [j \in 1..Len(db.stats) |->
        IF \E i \in 1..Len(qs) : StatisticOf(db, qs[i].id) = j
        THEN LET i == CHOOSE i \in 1..Len(qs) : StatisticOf(db, qs[i].id) = j
             IN  UpdateStatistic(db.stats[j], qs[i], result.responses[i],
                                 result.parsed_answers)
        ELSE db.stats[j]]

\* submit_answers that has written the correct_attempts increments, and not
\* the total_attempts ones, by the time it fails
submit_store_miscounting(data, exam_id, qs, results, db) ==
    LET responses == Responses(parse_answers(data.answers), qs)
    IN  { [status |-> 500,
           db |-> [db EXCEPT !.stats =
                    [j \in 1..Len(db.stats) |->
                        IF \E i \in 1..Len(qs) :
                              StatisticOf(db, qs[i].id) = j /\ responses[i] = 1
                        THEN [db.stats[j] EXCEPT !.correct_attempts = @ + 1]
                        ELSE db.stats[j]]]] }

\* submit_answers that has committed the total_attempts increments by the
\* time it fails
submit_store_half_committed(data, exam_id, qs, results, db) ==
    { [status |-> 500,
       db |-> [db EXCEPT !.stats =
                [j \in 1..Len(db.stats) |->
                    IF \E i \in 1..Len(qs) : StatisticOf(db, qs[i].id) = j
                    THEN [db.stats[j] EXCEPT !.total_attempts = @ + 1]
                    ELSE db.stats[j]]]] }

\* lines 149-207, after process_submission has returned one of results: the
\* records, the commit, the recalibration; the set of responses it can end in
submit_store(data, exam_id, qs, results, db) ==
    LET submission(result) ==
            NewSubmission(Len(db.submissions) + 1, exam_id, data.studentName,
                          data.studentCode, json_roundtrip(result.parsed_answers), result)
        committed(result) ==
            [db EXCEPT !.submissions = Append(db.submissions, submission(result)),
                       !.stats = UpdatedStatistics(db, qs, result)]
    IN  \* json.dumps(result['parsed_answers']): NameError, caught, rollback
        IF NameError("json") THEN {[status |-> 500, db |-> db]}
        \* a statistic row made here has total_attempts None: += raises TypeError
        ELSE IF \E i \in 1..Len(qs) : StatisticOf(db, qs[i].id) = NullId
             THEN {[status |-> 500, db |-> db]}
        ELSE { [status |-> 200, db |-> update_b_parameters(exam_id, committed(result)).db] :
               result \in results }

(***************************************************************************)
(* get_submission_result                                                   *)
(***************************************************************************)
\* x.total_score or 0
ScoreKey(x) == x.total_score

\* sorted(all_submissions, key=..., reverse=True): stable, descending
RECURSIVE InsertByScore(_, _)
InsertByScore(x, sorted) ==
    IF sorted = <<>> THEN <<x>>
    ELSE IF FLess(ScoreKey(Head(sorted)), ScoreKey(x)) THEN <<x>> \o sorted
    ELSE <<Head(sorted)>> \o InsertByScore(x, Tail(sorted))

RECURSIVE sorted_submissions(_)
sorted_submissions(subs) ==
    IF subs = <<>> THEN <<>>
    ELSE InsertByScore(subs[Len(subs)], sorted_submissions(SubSeq(subs, 1, Len(subs) - 1)))

Ranking(subs, submission) ==
    LET sorted == sorted_submissions(subs)
        position ==
            IF \E i \in 1..Len(sorted) : sorted[i].id = submission.id
            THEN CHOOSE i \in 1..Len(sorted) : sorted[i].id = submission.id
            ELSE 1
        n == Len(sorted)
    IN  [position |-> position, totalStudents |-> n,
         percentile |-> FTrunc(FMul(Float(n - position + 1, n), FloatOfInt(100)))]

\* Submission.query.filter_by(exam_id=..., student_code=...).first(): the row's id
SubmissionByCode(db, exam_id, student_code) ==
    LET hit(i) == db.submissions[i].exam_id = exam_id
                  /\ db.submissions[i].student_code = student_code
    IN  IF \E i \in 1..Len(db.submissions) : hit(i)
        THEN CHOOSE i \in 1..Len(db.submissions) : hit(i) /\ \A j \in 1..(i - 1) : ~hit(j)
        ELSE NullId

NoRanking == [position |-> 0, totalStudents |-> 0, percentile |-> 0]

get_submission_result(student_code, exam_code, db) ==
    LET exam_id == ExamByCode(db, exam_code)
        submission_id == SubmissionByCode(db, exam_id, student_code)
    IN  IF exam_id = NullId THEN [status |-> 404, ranking |-> NoRanking]
        ELSE IF submission_id = NullId THEN [status |-> 404, ranking |-> NoRanking]
        \* json.loads(submission.answers): NameError, caught
        ELSE IF NameError("json") THEN [status |-> 500, ranking |-> NoRanking]
        ELSE [status |-> 200,
              ranking |-> Ranking(SubmissionsOf(db, exam_id), db.submissions[submission_id])]

(***************************************************************************)
(* get_exam_statistics                                                     *)
(***************************************************************************)
get_exam_statistics(exam_code, db) ==
    LET exam_id == ExamByCode(db, exam_code)
    IN  IF exam_id = NullId THEN [status |-> 404, totalStudents |-> 0]
        ELSE [status |-> 200, totalStudents |-> Len(SubmissionsOf(db, exam_id))]

(***************************************************************************)
(* The database the server starts on: empty, or one exam with its          *)
(* questions, statistic rows and earlier submissions already stored.       *)
(***************************************************************************)
SeedType(i) ==
    CASE i = 2 -> "fill_number"
      [] i = 3 -> "true_false"
      [] i = 4 -> "multiple_answer"
      [] i = 5 -> "fill_text"
      [] i = 6 -> "drag_drop"
      [] OTHER -> "multiple_choice"

SeedAnswer(i) ==
    CASE i = 1 -> <<"A">>
      [] i = 2 -> <<"7", ".", "0", "0">>
      [] i = 3 -> <<"D", "S", "D", "S">>
      [] i = 4 -> <<"A", "C">>
      [] i = 5 -> <<"a", "b">>
      [] i = 6 -> <<"x">>
      [] OTHER -> <<"B">>

SeedDifficulty(i) ==
    CASE i = 1 -> Float(1, 2)
      [] i = 2 -> FloatOfInt(-1)
      [] OTHER -> FloatOfInt(0)

SeedExams ==
    { [total_questions |-> DefaultTotalQuestions, part_division |-> <<40, 20, 40>>, n |-> 100],
      [total_questions |-> DefaultTotalQuestions, part_division |-> <<40, 20, 40>>, n |-> 99],
      [total_questions |-> DefaultTotalQuestions, part_division |-> <<30, 30, 40>>, n |-> 100],
      [total_questions |-> 50, part_division |-> <<20, 10, 20>>, n |-> 100],
      [total_questions |-> 50, part_division |-> <<20, 10, 20>>, n |-> 50] }

SeedQuestions(n) ==
    [i \in 1..n |-> NewQuestion(i, 1, i, SeedType(i), SeedAnswer(i), SeedDifficulty(i))]

\* two kinds of stored submission: one right on questions 1..3, one wrong
SeedAnswers(strong) ==
    IF strong
    THEN [k \in {"1", "2", "3"} |->
            CASE k = "1" -> <<"a">>
              [] k = "2" -> <<"7", ".", "0", "0", "4">>
              [] OTHER -> <<"D", "S", "D", "S">>]
    ELSE [k \in {"1", "2"} |->
            CASE k = "1" -> <<"B">>
              [] OTHER -> <<"7", ".", "0", "5">>]

SeedSubmission(i, strong) ==
    LET theta == IF strong THEN FloatOfInt(1) ELSE FloatOfInt(-1)
    IN  NewSubmission(i, 1, "An", str(i), SeedAnswers(strong),
            [theta_part1 |-> theta, theta_part2 |-> FloatOfInt(0),
             theta_part3 |-> FloatOfInt(0), theta_total |-> theta,
             score_part1 |-> scale_to_100(irt_processor, theta), score_part2 |-> scale_to_100(irt_processor, FloatOfInt(0)),
             score_part3 |-> scale_to_100(irt_processor, FloatOfInt(0)), total_score |-> scale_to_100(irt_processor, theta)])

\* n submissions, strong and weak in turn from the k-th on
SeedSubmissions(n, k) == [i \in 1..n |-> SeedSubmission(i, i >= k /\ (i - k) % 2 = 0)]

\* the counters n stored submissions leave on a question's statistic row
SeedStatistic(question, subs) ==
    LET answer(i) == DictGet(subs[i].answers, str(question.question_number))
        right(i) == check_answer(answer(i), question.correct_answer, question.question_type)
        chose(c) == IF question.question_type = "multiple_choice"
                    THEN Cardinality({i \in 1..Len(subs) : upper(answer(i)) = <<c>>})
                    ELSE 0
    IN  [NewStatistic(question.id, question.id) EXCEPT
            !.total_attempts = Len(subs),
            !.correct_attempts = Cardinality({i \in 1..Len(subs) : right(i)}),
            !.option_a_count = chose("A"), !.option_b_count = chose("B"),
            !.option_c_count = chose("C"), !.option_d_count = chose("D")]

NoResponse ==
    [op |-> "none", status |-> 0, exam_id |-> NullId, outcome |-> "",
     scored |-> FALSE, estimated |-> <<>>, ranking |-> NoRanking]

Idle == [pc |-> "idle", data |-> <<>>, exam_id |-> NullId, questions |-> <<>>, status |-> 0]

InitEmpty ==
    /\ exams = <<>>
    /\ questions = <<>>
    /\ submissions = <<>>
    /\ stats = <<>>

InitSeeded ==
    \E e \in SeedExams : \E n \in 0..MaxSubmissions : \E k \in {1, 2} :
        /\ exams = <<NewExam(1, "E1", "Exam", e.total_questions, e.part_division)>>
        /\ questions = SeedQuestions(e.n)
        /\ submissions = SeedSubmissions(n, k)
        /\ stats = [i \in 1..e.n |-> SeedStatistic(SeedQuestions(e.n)[i], SeedSubmissions(n, k))]

Init ==
    /\ InitEmpty \/ InitSeeded
    /\ last = NoResponse
    /\ inflight = [r \in 1..MaxRequests |-> Idle]

(***************************************************************************)
(* Requests                                                                *)
(***************************************************************************)
ExamCodes == {"E1", "E2"}

AnswerTexts ==
    { <<>>,
      <<"x", "x">>,
      <<"1", " ", "B">>,
      <<"1", " ", "a", "\n", "2", " ", "7", ".", "0", "0", "4", "\n", "\n",
        "b", "a", "d", "\n", "3", " ", "D", "S", "D", "S">> }

QuestionData ==
    [id |-> 1, type |-> "multiple_choice", correctAnswer |-> <<"A">>,
     bParameter |-> FloatOfInt(0)]

CreateInputs ==
    { [code |-> c, name |-> "Exam", totalQuestions |-> t[1], partDivision |-> t[2],
       questions |-> q] :
      c \in {"", "E1", "E2"},
      t \in {<<DefaultTotalQuestions, <<40, 20, 40>>>>},
      q \in {<<>>, <<QuestionData>>} }

SubmitInputs ==
    { [studentName |-> "An", studentCode |-> "s9", examCode |-> c, answers |-> a] :
      c \in ExamCodes, a \in AnswerTexts }

StudentCodes == {str(i) : i \in 1..MaxSubmissions} \cup {"s9"}

SetDB(db) ==
    /\ exams' = db.exams
    /\ questions' = db.questions
    /\ submissions' = db.submissions
    /\ stats' = db.stats

(***************************************************************************)
(* The handlers, one request at a time.                                    *)
(***************************************************************************)
CreateExam ==
    \E data \in CreateInputs :
        LET r == create_exam(data, DB)
        IN  /\ r.status = 200 => Len(exams) < MaxExams
            /\ SetDB(r.db)
            /\ last' = [NoResponse EXCEPT !.op = "create_exam", !.status = r.status,
                                          !.exam_id = ExamByCode(r.db, data.code)]
            /\ UNCHANGED inflight

SubmitAnswers ==
    \E data \in SubmitInputs :
        LET found == submit_lookup(data, DB)
        IN  IF found.status # 0
            THEN /\ last' = [NoResponse EXCEPT !.op = "submit_answers",
                                !.status = found.status, !.exam_id = found.exam_id]
                 /\ UNCHANGED <<exams, questions, submissions, stats, inflight>>
            ELSE LET results == process_submission(irt_processor, data.answers, found.questions)
                 IN  \E r \in submit_store(data, found.exam_id, found.questions, results, DB) :
                        /\ SetDB(r.db)
                        /\ last' = [NoResponse EXCEPT !.op = "submit_answers",
                                        !.status = r.status, !.exam_id = found.exam_id,
                                        !.scored = TRUE,
                                        !.estimated = Scored(data.answers, found.questions)]
                        /\ UNCHANGED inflight

GetSubmissionResult ==
    \E student_code \in StudentCodes, exam_code \in ExamCodes :
        LET r == get_submission_result(student_code, exam_code, DB)
        IN  /\ last' = [NoResponse EXCEPT !.op = "get_submission_result",
                            !.status = r.status, !.exam_id = ExamByCode(DB, exam_code),
                            !.outcome = student_code, !.ranking = r.ranking]
            /\ UNCHANGED <<exams, questions, submissions, stats, inflight>>

GetExamStatistics ==
    \E exam_code \in ExamCodes :
        LET r == get_exam_statistics(exam_code, DB)
        IN  /\ last' = [NoResponse EXCEPT !.op = "get_exam_statistics",
                            !.status = r.status, !.exam_id = ExamByCode(DB, exam_code)]
            /\ UNCHANGED <<exams, questions, submissions, stats, inflight>>

UpdateBParameters ==
    \E exam_id \in 1..MaxExams :
        LET r == update_b_parameters(exam_id, DB)
        IN  /\ SetDB(r.db)
            /\ last' = [NoResponse EXCEPT !.op = "update_b_parameters",
                            !.exam_id = exam_id, !.outcome = r.outcome]
            /\ UNCHANGED inflight

Next ==
    \/ CreateExam
    \/ SubmitAnswers
    \/ GetSubmissionResult
    \/ GetExamStatistics
    \/ UpdateBParameters

Spec == Init /\ [][Next]_vars

(***************************************************************************)
(* submit_answers under concurrent requests: the server runs each request  *)
(* in its own thread and session, and the handler takes no lock.  A        *)
(* request reads the exam and its questions (SubmitBegin), then scores and *)
(* stores (SubmitEnd); other requests run between the two.                 *)
(***************************************************************************)
SubmitBegin(r) ==
    /\ inflight[r].pc = "idle"
    /\ \E data \in SubmitInputs :
        LET found == submit_lookup(data, DB)
        IN  inflight' = [inflight EXCEPT ![r] =
                IF found.status # 0
                THEN [Idle EXCEPT !.pc = "done", !.status = found.status,
                                  !.exam_id = found.exam_id]
                ELSE [pc |-> "scoring", data |-> data, exam_id |-> found.exam_id,
                      questions |-> found.questions, status |-> 0]]
    /\ UNCHANGED <<exams, questions, submissions, stats, last>>

SubmitEnd(r) ==
    /\ inflight[r].pc = "scoring"
    /\ LET req == inflight[r]
           results == process_submission(irt_processor, req.data.answers, req.questions)
       IN  \E resp \in submit_store(req.data, req.exam_id, req.questions, results, DB) :
              /\ SetDB(resp.db)
              /\ inflight' = [inflight EXCEPT ![r] =
                    [req EXCEPT !.pc = "done", !.status = resp.status, !.questions = <<>>]]
    /\ UNCHANGED last

ConcNext == \E r \in 1..MaxRequests : SubmitBegin(r) \/ SubmitEnd(r)

ConcSpec == Init /\ [][ConcNext]_vars

(***************************************************************************)
(* The methods of IRTProcessor called on their own: each action applies    *)
(* one method to inputs drawn from bounded sets and records the call and   *)
(* what it returned in last.                                               *)
(***************************************************************************)
MaxLen == 4

ParseAlphabet == {"1", "x", " ", "\t", "\n"}

\* the texts of at most n characters
Texts(n) == UNION {[1..k -> ParseAlphabet] : k \in 0..n}

AnswerValues ==
    { <<>>, <<" ">>, <<"a">>, <<"A">>, <<" ", "a">>, <<"A", " ">>, <<"b">>,
      <<"7", ".", "0", "0", "4">>, <<"7", ".", "0", "0">>, <<"7", ".", "0", "5">> }

QuestionTypes ==
    {"multiple_choice", "multiple_answer", "true_false", "fill_number", "fill_text",
     "drag_drop", "essay"}

\* the bounds a processor is constructed with
BoundValues == {-3, -1, 1, 3}

ResponseVectors == {<<>>, <<0>>, <<1>>, <<1, 0>>}

DifficultyVectors == {<<>>, <<FloatOfInt(0)>>, <<FloatOfInt(0), FloatOfInt(1)>>}

\* a call that has been made and has not run yet
Pending(method, args) == [op |-> "pending", method |-> method, args |-> args]

ProcessorInit ==
    /\ InitEmpty
    /\ inflight = [r \in 1..MaxRequests |-> Idle]
    /\ \/ \E answers_text \in Texts(MaxLen) :
             last = Pending("parse_answers", [answers_text |-> answers_text])
       \/ \E student_answer \in AnswerValues, correct_answer \in AnswerValues,
             question_type \in QuestionTypes :
             last = Pending("check_answer",
                            [student_answer |-> student_answer,
                             correct_answer |-> correct_answer,
                             question_type |-> question_type])
       \/ \E lo \in BoundValues, hi \in BoundValues :
             /\ lo < hi
             /\ \E responses \in ResponseVectors, b_parameters \in DifficultyVectors :
                   last = Pending("estimate_theta",
                                  [self |-> IRTProcessor(lo, hi), responses |-> responses,
                                   b_parameters |-> b_parameters])

ParseAnswers ==
    /\ last.op = "pending" /\ last.method = "parse_answers"
    /\ last' = [op |-> "parse_answers", answers_text |-> last.args.answers_text,
                parsed |-> parse_answers(last.args.answers_text)]
    /\ UNCHANGED <<exams, questions, submissions, stats, inflight>>

CheckAnswer ==
    /\ last.op = "pending" /\ last.method = "check_answer"
    /\ last' = [op |-> "check_answer", student_answer |-> last.args.student_answer,
                correct_answer |-> last.args.correct_answer,
                question_type |-> last.args.question_type,
                result |-> check_answer(last.args.student_answer, last.args.correct_answer,
                                        last.args.question_type)]
    /\ UNCHANGED <<exams, questions, submissions, stats, inflight>>

EstimateTheta ==
    /\ last.op = "pending" /\ last.method = "estimate_theta"
    /\ \E theta \in estimate_theta(last.args.self, last.args.responses,
                                   last.args.b_parameters) :
          last' = [op |-> "estimate_theta", self |-> last.args.self,
                   responses |-> last.args.responses,
                   b_parameters |-> last.args.b_parameters,
                   result |-> theta, score |-> scale_to_100(last.args.self, theta)]
    /\ UNCHANGED <<exams, questions, submissions, stats, inflight>>

ProcessorNext ==
    \/ ParseAnswers
    \/ CheckAnswer
    \/ EstimateTheta

ProcessorSpec == ProcessorInit /\ [][ProcessorNext]_vars

(***************************************************************************)
(* Properties                                                              *)
(***************************************************************************)
QuestionRows(exam_id) == {j \in 1..Len(questions) : questions[j].exam_id = exam_id}
StoredFor(exam_id) == SubmissionsOf(DB, exam_id)
Recalibrated == last.op = "update_b_parameters"
Submitted == last.op = "submit_answers"

\* C1: when update_b_parameters runs for an exam with fewer than 5 stored
\* submissions, every question of the exam keeps its b_parameter.
C1_GateLeavesDifficulties ==
    [][(last'.op = "update_b_parameters"
        /\ Len(StoredFor(last'.exam_id)) < MinSubmissions)
       => /\ Len(questions') = Len(questions)
          /\ \A j \in QuestionRows(last'.exam_id) :
                questions'[j].b_parameter = questions[j].b_parameter]_vars

\* the gate has skipped a recalibration that would have moved a difficulty
C1_Witness ==
    /\ Recalibrated
    /\ last.outcome = "skipped"
    /\ Len(StoredFor(last.exam_id)) = MinSubmissions - 1
    /\ \E j \in QuestionRows(last.exam_id) :
          /\ questions[j].b_parameter # FloatOfInt(0)
          /\ NewDifficulty(questions[j], StoredFor(last.exam_id)) # questions[j].b_parameter

\* C2: after update_b_parameters has run for an exam with 5 or more stored
\* submissions, each question's b_parameter is the mean of the theta_total of
\* the submissions that re-grade as correct on it, 0.0 when there is none.
C2_DifficultyIsMeanOfCorrect ==
    (Recalibrated /\ Len(StoredFor(last.exam_id)) >= MinSubmissions)
    => \A j \in QuestionRows(last.exam_id) :
          LET subs == StoredFor(last.exam_id)
              right == {i \in 1..Len(subs) :
                          check_answer(DictGet(subs[i].answers, str(questions[j].question_number)),
                                       questions[j].correct_answer, questions[j].question_type)}
              thetas == SelectSeq([i \in 1..Len(subs) |-> IF i \in right THEN <<subs[i].theta_total>> ELSE <<>>],
                                  LAMBDA t : t # <<>>)
          IN  questions[j].b_parameter =
                IF right = {} THEN FloatOfInt(0)
                ELSE FDiv(FSum([i \in 1..Len(thetas) |-> thetas[i][1]]),
                          FloatOfInt(Cardinality(right)))

\* C3: a submit for an exam whose stored question count differs from the
\* exam's total_questions is rejected with 400 and nothing is scored.
C3_CountMismatchRejected ==
    (Submitted /\ last.exam_id # NullId
     /\ Cardinality(QuestionRows(last.exam_id)) # exams[last.exam_id].total_questions)
    => (last.status = 400 /\ ~last.scored)

\* C4: a submit with its fields present, for an existing exam that holds its
\* total_questions questions, succeeds and its submission is stored.
C4_ValidSubmitStored ==
    (Submitted /\ last.exam_id # NullId
     /\ Cardinality(QuestionRows(last.exam_id)) = exams[last.exam_id].total_questions)
    => /\ last.status = 200
       /\ \E i \in 1..Len(submissions) :
             submissions[i].exam_id = last.exam_id /\ submissions[i].student_code = "s9"

\* C5: when a submit is scored for an exam whose part_division (n1, n2, n3)
\* sums to the question count, the three part estimates are over questions
\* 1..n1, n1+1..n1+n2 and n1+n2+1..n1+n2+n3 and the total over all of them.
C5_PartsFollowDivision ==
    (Submitted /\ last.scored)
    => LET d == exams[last.exam_id].part_division
           all == last.estimated[4]
       IN  (d[1] + d[2] + d[3] = Len(all))
           => /\ Len(all) = Cardinality(QuestionRows(last.exam_id))
              /\ last.estimated[1] = SubSeq(all, 1, d[1])
              /\ last.estimated[2] = SubSeq(all, d[1] + 1, d[1] + d[2])
              /\ last.estimated[3] = SubSeq(all, d[1] + d[2] + 1, d[1] + d[2] + d[3])

\* round(x) of a non-negative float: nearest integer, a half to the even one
FRound(a) ==
    LET lo == a.num \div a.den
        twice == 2 * (a.num - lo * a.den)
    IN  IF twice < a.den THEN lo
        ELSE IF twice > a.den THEN lo + 1
        ELSE IF lo % 2 = 0 THEN lo ELSE lo + 1

\* C6: a result request for a stored submission reports its 1-based place
\* among the exam's submissions by total_score, descending, ties in insertion
\* order, and the percentile round((N - position + 1) / N * 100).
C6_RankingReported ==
    (last.op = "get_submission_result" /\ last.exam_id # NullId
     /\ SubmissionByCode(DB, last.exam_id, last.outcome) # NullId)
    => LET subs == StoredFor(last.exam_id)
           n == Len(subs)
           t == CHOOSE i \in 1..n : subs[i].id = SubmissionByCode(DB, last.exam_id, last.outcome)
           position == 1 + Cardinality({i \in 1..n : FLess(subs[t].total_score, subs[i].total_score)})
                         + Cardinality({i \in 1..(t - 1) : subs[i].total_score = subs[t].total_score})
       IN  /\ last.status = 200
           /\ last.ranking.position = position
           /\ last.ranking.totalStudents = n
           /\ last.ranking.percentile = FRound(FMul(Float(n - position + 1, n), FloatOfInt(100)))

\* C7: every statistic row has correct_attempts <= total_attempts, and no
\* step removes a row or lowers one of its six counters.
C7_CountersBoundedAndMonotone ==
    /\ [](\A j \in 1..Len(stats) : stats[j].correct_attempts <= stats[j].total_attempts)
    /\ [][/\ Len(stats') >= Len(stats)
          /\ \A j \in 1..Len(stats) :
                /\ stats'[j].total_attempts >= stats[j].total_attempts
                /\ stats'[j].correct_attempts >= stats[j].correct_attempts
                /\ stats'[j].option_a_count >= stats[j].option_a_count
                /\ stats'[j].option_b_count >= stats[j].option_b_count
                /\ stats'[j].option_c_count >= stats[j].option_c_count
                /\ stats'[j].option_d_count >= stats[j].option_d_count]_vars

\* a submit has been scored for an exam whose rows hold counts, one of them
\* with every attempt correct
C7_Witness ==
    /\ Submitted
    /\ last.scored
    /\ \E j \in 1..Len(stats) :
          stats[j].total_attempts > 0 /\ stats[j].correct_attempts = stats[j].total_attempts

C9_IndependentOfPriorDifficulty ==
    (Recalibrated /\ Len(StoredFor(last.exam_id)) >= MinSubmissions)
    => LET zeroed == [DB EXCEPT !.questions =
                        [j \in 1..Len(questions) |->
                            IF j \in QuestionRows(last.exam_id)
                            THEN [questions[j] EXCEPT !.b_parameter = FloatOfInt(0)]
                            ELSE questions[j]]]
           fresh == update_b_parameters(last.exam_id, zeroed).db.questions
       IN  \A j \in QuestionRows(last.exam_id) :
              questions[j].b_parameter = fresh[j].b_parameter

\* C10: a run of update_b_parameters, skipped, failed or completed, leaves
\* every stored submission as it was.
C10_SubmissionsUntouched ==
    [][last'.op = "update_b_parameters"
       => /\ Len(submissions') >= Len(submissions)
          /\ \A i \in 1..Len(submissions) : submissions'[i] = submissions[i]]_vars

\* a recalibration over 5 or more stored submissions has failed and rolled back
C10_Witness ==
    /\ Recalibrated
    /\ last.outcome = "failed"
    /\ Len(StoredFor(last.exam_id)) >= MinSubmissions

\* the index of the first whitespace character of t, 0 when there is none
FirstWhitespace(t) ==
    IF \E i \in 1..Len(t) : t[i] \in Whitespace
    THEN CHOOSE i \in 1..Len(t) :
            t[i] \in Whitespace /\ \A j \in 1..(i - 1) : t[j] \notin Whitespace
    ELSE 0
FirstToken(t) == SubSeq(t, 1, FirstWhitespace(t) - 1)
Remainder(t) == strip(SubSeq(t, FirstWhitespace(t), Len(t)))
\* an integer literal, a whitespace run, a non-empty remainder
WellFormedLine(t) ==
    /\ FirstWhitespace(t) > 0
    /\ LET u == Unsigned(FirstToken(t))
       IN  u # <<>> /\ \A i \in 1..Len(u) : IsDigit(u[i])
    /\ Remainder(t) # <<>>
LineNumber(t) == SignOf(FirstToken(t)) * DigitsValue(Unsigned(FirstToken(t)))

\* C11: parse_answers maps the number of every well-formed line (an integer
\* literal, a run of whitespace, a non-empty remainder) to its trimmed
\* remainder, the last such line winning for a repeated number, and holds no
\* entry that comes from no well-formed line.
C11_WellFormedLinesParsed ==
    last.op = "parse_answers"
    => LET lines == [i \in 1..Len(split(last.answers_text, "\n")) |->
                        strip(split(last.answers_text, "\n")[i])]
       IN  /\ \A i \in 1..Len(lines) :
                (/\ WellFormedLine(lines[i])
                 /\ \A j \in (i + 1)..Len(lines) :
                       WellFormedLine(lines[j]) => LineNumber(lines[j]) # LineNumber(lines[i]))
                => /\ LineNumber(lines[i]) \in DOMAIN last.parsed
                   /\ last.parsed[LineNumber(lines[i])] = Remainder(lines[i])
           /\ \A n \in DOMAIN last.parsed :
                \E i \in 1..Len(lines) : WellFormedLine(lines[i]) /\ LineNumber(lines[i]) = n

StringTypes == {"multiple_choice", "multiple_answer", "true_false", "fill_text", "drag_drop"}
\* an answer with its case changed, or whitespace added or removed at its ends
Variants(a) == {a, upper(a), strip(a), <<" ">> \o a, a \o <<" ">>}

\* C12: for the string-comparison types, changing the case of an answer or the
\* whitespace at its ends does not change what check_answer returns, and
\* check_answer returns false when either answer is empty.
C12_CaseAndWhitespaceInsensitive ==
    last.op = "check_answer"
    => /\ last.question_type \in StringTypes
          => \A s \in Variants(last.student_answer), c \in Variants(last.correct_answer) :
                check_answer(s, c, last.question_type) = last.result
       /\ (last.student_answer = <<>> \/ last.correct_answer = <<>>) => ~last.result

FLeq(a, b) == ~FLess(b, a)
WithinBounds ==
    /\ FLeq(FloatOfInt(last.self.theta_min), last.result)
    /\ FLeq(last.result, FloatOfInt(last.self.theta_max))
    /\ FLeq(FloatOfInt(0), last.score)
    /\ FLeq(last.score, FloatOfInt(100))

\* C14 as stated: for every processor with theta_min < theta_max, what
\* estimate_theta returns lies in [theta_min, theta_max] and its scale_to_100
\* lies in [0, 100].
C14_EstimateWithinBounds ==
    last.op = "estimate_theta" => WithinBounds

\* C14 amended: the same for every processor with theta_min <= 0 <= theta_max.
C14_EstimateWithinBoundsAroundZero ==
    (last.op = "estimate_theta" /\ last.self.theta_min <= 0 /\ last.self.theta_max >= 0)
    => WithinBounds

\* the maximizer has returned the upper bound of a processor around zero
C14_Witness ==
    /\ last.op = "estimate_theta"
    /\ last.self.theta_min <= 0 /\ last.self.theta_max >= 0
    /\ Len(last.responses) > 0 /\ Len(last.b_parameters) > 0
    /\ last.result = FloatOfInt(last.self.theta_max)
    /\ last.score = FloatOfInt(100)

\* the stored submissions of a question's exam that re-grade as correct on it
CorrectResponders(question) ==
    SelectSeq(StoredFor(question.exam_id),
              LAMBDA x : check_answer(DictGet(x.answers, str(question.question_number)),
                                      question.correct_answer, question.question_type))

\* C13: once a submit has been scored for an exam, each statistic row of a
\* question of it that stored submissions answered correctly holds in
\* average_theta the mean theta_total of those submissions.
C13_AverageThetaOfCorrect ==
    \A j \in 1..Len(stats) : \A i \in 1..Len(questions) :
        (/\ Submitted
         /\ last.scored
         /\ questions[i].exam_id = last.exam_id
         /\ questions[i].id = stats[j].question_id
         /\ Len(CorrectResponders(questions[i])) > 0)
        => stats[j].average_theta =
              np_mean([k \in 1..Len(CorrectResponders(questions[i])) |->
                          CorrectResponders(questions[i])[k].theta_total])

\* C15: every statistic row's total_attempts is the number of stored
\* submissions of its question's exam, and a submit that does not succeed
\* leaves the submissions and the statistic rows as they were.
C15_SubmissionAndCountersTogether ==
    /\ [](\A j \in 1..Len(stats) : \A i \in 1..Len(questions) :
            questions[i].id = stats[j].question_id
            => stats[j].total_attempts = Len(StoredFor(questions[i].exam_id)))
    /\ [][(last'.op = "submit_answers" /\ last'.status # 200)
          => (submissions' = submissions /\ stats' = stats)]_vars

\* a scored submit has failed on an exam that holds submissions and counters
C15_Witness ==
    /\ Submitted
    /\ last.scored
    /\ last.status = 500
    /\ Len(StoredFor(last.exam_id)) > 0
    /\ \E j \in 1..Len(stats) : stats[j].total_attempts = Len(StoredFor(last.exam_id))

====
